---- MODULE Spec2Model ----
(***************************************************************************)
(* Quoted-parameter restoration of genienlp:                               *)
(*   genienlp/paraphrase/model_utils.py, replace_quoted_params (strict)    *)
(*   and force_replace_quoted_params (forced).                             *)
(*                                                                         *)
(* A token is a sequence of characters, a string is a sequence of          *)
(* characters.  "_" stands for the SentencePiece word-start mark U+2581,   *)
(* "<" and ">" stand for the guillemets U+00AB and U+00BB.  Token and      *)
(* character indices are 0-based as in the Python source; TLA+ sequences   *)
(* are 1-based, so x[k+1] reads Python's x[k].                             *)
(*                                                                         *)
(* The pooled attention matrix is read only through                        *)
(* torch.argmax(sample_layer_attention_pooled[:, i]), once per source      *)
(* position i at most (i only grows and source spans are disjoint).  The   *)
(* matrix is an input the model does not fix in advance: the value of each *)
(* argmax is chosen when the column is read.  max_tgt_att_idx holds the    *)
(* last value read (-1 before the first read); `missed` is the set of      *)
(* source positions whose read found no target span to claim.  att_read is *)
(* the set of columns a forced call has read.  The matrix has one column   *)
(* per token of src_given, the source as the caller first passed it, and   *)
(* one row per target token, plus att_pad padding rows and columns.        *)
(*                                                                         *)
(* src_tokens is the caller's list object: a forced call appends to it in  *)
(* place.  mode tells which function the current call is.                  *)
(***************************************************************************)
EXTENDS Integers, Sequences, FiniteSets, TLC

VARIABLES src_tokens, tgt_tokens, tgt_lang,
          pc, src_idx, i, tgt_span_success,
          src2tgt_mapping, src2tgt_mapping_index,
          max_tgt_att_idx, missed, text, success, run, first_text,
          mode, src_given, att_pad, att_read, tokens, error

vars == <<src_tokens, tgt_tokens, tgt_lang, pc, src_idx, i, tgt_span_success,
          src2tgt_mapping, src2tgt_mapping_index, max_tgt_att_idx, missed,
          text, success, run, first_text,
          mode, src_given, att_pad, att_read, tokens, error>>

-----------------------------------------------------------------------------
(* Bounds of the input space *)

MaxSrcLen == 7
MaxTgtLen == 6
MaxWideLen == 3
MaxRun == 2
\* forced substitution: tokens of the source, tokens of the target
MaxForcedSrcLen == 4
MaxForcedTgtLen == 4

-----------------------------------------------------------------------------
(* Characters and tokens *)

Quote == "\""
Space == " "
SPIECE_UNDERLINE == "_"

TokQuote == <<SPIECE_UNDERLINE, Quote>>
TokA == <<SPIECE_UNDERLINE, "a">>
TokEmptyLit == <<SPIECE_UNDERLINE, Quote, Quote>>
TokLGuil == <<SPIECE_UNDERLINE, "<">>
TokRGuil == <<SPIECE_UNDERLINE, ">">>

SrcVocab == {TokQuote, TokA}
TgtVocab == {TokQuote, TokA}
\* with a token holding two quotation symbols (an empty literal)
EmptyLitVocab == {TokQuote, TokA, TokEmptyLit}
\* with the guillemets, quotation symbols of 'ru' only
RuVocab == {TokQuote, TokA, TokLGuil, TokRGuil}
Langs == {"en", "ru"}

SeqsUpTo(V, n) == UNION {[1..k -> V] : k \in 0..n}

\* at most MaxRun consecutive word tokens: a literal has at most MaxRun words
ShortRuns(s) ==
    \A k \in 1..(Len(s) - MaxRun) : \E j \in k..(k + MaxRun) : s[j] # TokA

SrcInputs == {s \in SeqsUpTo(SrcVocab, MaxSrcLen) : ShortRuns(s)}
CoreInputs == {s \in SeqsUpTo(TgtVocab, MaxTgtLen) : ShortRuns(s)}

\* without guillemets in the target a 'ru' call is an 'en' call
TgtInputs(lang) ==
    IF lang = "ru" THEN SeqsUpTo(RuVocab, MaxWideLen)
    ELSE CoreInputs \cup SeqsUpTo(EmptyLitVocab, MaxWideLen)

-----------------------------------------------------------------------------
(* Sequence helpers *)

RECURSIVE Concat(_)
Concat(ss) == IF ss = <<>> THEN <<>> ELSE Head(ss) \o Concat(Tail(ss))

RECURSIVE Join(_, _)
Join(ss, sep) ==
    IF ss = <<>> THEN <<>>
    ELSE IF Len(ss) = 1 THEN ss[1]
    ELSE ss[1] \o sep \o Join(Tail(ss), sep)

\* Python's s[a:b] for 0 <= a <= b <= len(s)
Slice(s, a, b) == SubSeq(s, a + 1, b)

RECURSIVE LStrip(_)
LStrip(s) == IF s # <<>> /\ Head(s) = Space THEN LStrip(Tail(s)) ELSE s

RECURSIVE RStrip(_)
RStrip(s) ==
    IF s # <<>> /\ s[Len(s)] = Space THEN RStrip(SubSeq(s, 1, Len(s) - 1)) ELSE s

-----------------------------------------------------------------------------
(* Quotation symbols and span extraction *)

src_quotation_symbols == {Quote}
tgt_quotation_symbols(lang) == IF lang = "ru" THEN {Quote, "<", ">"} ELSE {Quote}

\* symbol in token, for some symbol of syms
IsQuoteToken(token, syms) == \E k \in 1..Len(token) : token[k] \in syms

\* [index for index, token in enumerate(tokens) if any(symbol in token ...)]
SpansInd(toks, syms) ==
    SelectSeq([k \in 1..Len(toks) |-> k - 1],
              LAMBDA idx : IsQuoteToken(toks[idx + 1], syms))

\* a bug: the spans include their quote tokens
ArrangeSpansWithMarkers(ind) ==
    [k \in 1..(Len(ind) \div 2) |-> <<ind[2 * k - 1], ind[2 * k]>>]

\* [(ind[i] + 1, ind[i + 1] - 1) for i in range(0, len(ind), 2)], len(ind) even
ArrangeSpans(ind) ==
    [k \in 1..(Len(ind) \div 2) |-> <<ind[2 * k - 1] + 1, ind[2 * k] - 1>>]

\* tokens -> string, by the tokenizer: the pieces are concatenated, the
\* word-start mark becomes a space and the string is stripped.  On sentence
\* pieces, spm DecodePieces (model_type 'marian') and convert_tokens_to_string
\* (the other model types) give the same string, so model_type is not a
\* variable of the model.
Detokenize(toks) ==
    LET joined == Concat(toks)
        spaced == [k \in 1..Len(joined) |->
                      IF joined[k] = SPIECE_UNDERLINE THEN Space ELSE joined[k]]
    IN RStrip(LStrip(spaced))

-----------------------------------------------------------------------------
(* re.finditer of [syms]\s?([^syms]*?)\s?[syms] over a string *)

\* least 1-based position >= from holding a symbol of syms, 0 if none
NextSym(str, syms, from) ==
    LET ps == {p \in from..Len(str) : str[p] \in syms}
    IN IF ps = {} THEN 0 ELSE CHOOSE p \in ps : \A r \in ps : p <= r

\* the matches, left to right, as <<start, end>> = match.span()
RECURSIVE FindIter(_, _, _)
FindIter(str, syms, from) ==
    LET open == NextSym(str, syms, from)
    IN IF open = 0 THEN <<>>
       ELSE LET close == NextSym(str, syms, open + 1)
            IN IF close = 0 THEN <<>>
               ELSE <<(<<open - 1, close>>)>> \o FindIter(str, syms, close + 1)

\* a bug: group(1), the content without its quotation symbols
Group1(str, m) == Slice(str, m[1] + 1, m[2] - 1)

\* match.group(0)
Group0(str, m) == Slice(str, m[1], m[2])

-----------------------------------------------------------------------------
(* Values replace_quoted_params derives from its arguments *)

src_spans_ind == SpansInd(src_tokens, src_quotation_symbols)
tgt_spans_ind == SpansInd(tgt_tokens, tgt_quotation_symbols(tgt_lang))

src_strings == Detokenize(src_tokens)
tgt_strings == Detokenize(tgt_tokens)

src_spans == ArrangeSpans(src_spans_ind)
tgt_spans == ArrangeSpans(tgt_spans_ind)

src_matches == FindIter(src_strings, src_quotation_symbols, 1)
tgt_matches == FindIter(tgt_strings, tgt_quotation_symbols(tgt_lang), 1)

\* rows of the attention matrix: one per target token, and the padding
AttentionRows == 0..(Len(tgt_tokens) + att_pad - 1)

\* columns of the attention matrix: one per source token, and the padding
AttentionCols == 0..(Len(src_given) + att_pad - 1)

-----------------------------------------------------------------------------
(* The matching loop *)

\* a bug: the test `(s1, s2) not in tgt_span_success` is missing
FindTgtSpanAnyClaim(spans, claimed, idx) ==
    LET hits == {k \in 1..Len(spans) :
                    /\ spans[k][1] <= idx
                    /\ idx <= spans[k][2]}
    IN IF hits = {} THEN -1
       ELSE (CHOOSE k \in hits : \A r \in hits : k <= r) - 1

\* for tgt_idx, (s1, s2) in enumerate(tgt_spans):
\*     if s1 <= idx <= s2 and (s1, s2) not in tgt_span_success: break
\* the 0-based index of the first such span, -1 if there is none
FindTgtSpan(spans, claimed, idx) ==
    LET hits == {k \in 1..Len(spans) :
                    /\ spans[k][1] <= idx
                    /\ idx <= spans[k][2]
                    /\ spans[k] \notin claimed}
    IN IF hits = {} THEN -1
       ELSE (CHOOSE k \in hits : \A r \in hits : k <= r) - 1

\* {v: k for k, v in src2tgt_mapping_index.items()}: a later key overwrites
Invert(map) ==
    [v \in {map[k] : k \in DOMAIN map} |->
        CHOOSE k \in DOMAIN map :
            map[k] = v /\ \A r \in DOMAIN map : map[r] = v => r <= k]

-----------------------------------------------------------------------------
(* The character-level substitution *)

\* tgt2src_mapping_index[pos] or src_matches[...] fails for some pos
LookupFails(tm, sm, t2s) ==
    \E pos \in 0..(Len(tm) - 1) : pos \notin DOMAIN t2s \/ t2s[pos] >= Len(sm)

\* a bug: the target position is used as the source position
ReplaceMatchSamePos(sm, t2s, pos) == sm[pos + 1]

\* replace_match = src_matches[tgt2src_mapping_index[pos]]
ReplaceMatch(sm, t2s, pos) == sm[t2s[pos] + 1]

\* the list `tokens` built by the loop over tgt_matches, from match pos on
RECURSIVE SplicePieces(_, _, _, _, _, _, _)
SplicePieces(tstr, tm, sstr, sm, t2s, pos, curr) ==
    IF pos >= Len(tm)
    THEN IF curr < Len(tstr) THEN <<Slice(tstr, curr, Len(tstr))>> ELSE <<>>
    ELSE LET start == tm[pos + 1][1]
             end == tm[pos + 1][2]
             before == IF start > curr THEN <<Slice(tstr, curr, start)>> ELSE <<>>
             replace_match == ReplaceMatch(sm, t2s, pos)
         IN before \o <<Group0(sstr, replace_match)>>
                   \o SplicePieces(tstr, tm, sstr, sm, t2s, pos + 1, end)

\* text = ' '.join(tokens)
ReplacedText(tstr, tm, sstr, sm, t2s) ==
    Join(SplicePieces(tstr, tm, sstr, sm, t2s, 0, 0), <<Space>>)

-----------------------------------------------------------------------------
(* The tokens a caller passes to make a given string the target of a call: *)
(* the pieces whose Detokenize is the string.  Every space starts a piece.  *)

RECURSIVE Pieces(_, _)
Pieces(str, cur) ==
    IF str = <<>> THEN <<cur>>
    ELSE IF Head(str) = Space THEN <<cur>> \o Pieces(Tail(str), <<SPIECE_UNDERLINE>>)
    ELSE Pieces(Tail(str), Append(cur, Head(str)))

Retokenize(str) == IF str = <<>> THEN <<>> ELSE Pieces(str, <<SPIECE_UNDERLINE>>)

-----------------------------------------------------------------------------
(* State machine *)

EmptyMap == [x \in {} |-> 0]

Init ==
    /\ src_tokens \in SrcInputs
    /\ tgt_lang \in Langs
    /\ tgt_tokens \in TgtInputs(tgt_lang)
    /\ pc = "start"
    /\ src_idx = 0
    /\ i = 0
    /\ tgt_span_success = {}
    /\ src2tgt_mapping = EmptyMap
    /\ src2tgt_mapping_index = EmptyMap
    /\ max_tgt_att_idx = -1
    /\ missed = {}
    /\ text = <<>>
    /\ success = FALSE
    /\ run = 1
    /\ first_text = <<>>
    /\ mode = "strict"
    /\ src_given = src_tokens
    /\ att_pad = 0
    /\ att_read = {}
    /\ tokens = <<>>
    /\ error = "none"

inputs == <<src_tokens, tgt_tokens, tgt_lang, run, first_text>>
callvars == <<mode, src_given, att_pad>>
forcedvars == <<att_read, tokens>>
loopvars == <<src_idx, i, tgt_span_success, src2tgt_mapping,
              src2tgt_mapping_index, max_tgt_att_idx, missed>>

\* a bug: the source string is returned
ReturnSourceString ==
    /\ text' = src_strings
    /\ success' = FALSE
    /\ pc' = "done"

\* return tgt_strings, False
ReturnUnchanged ==
    /\ text' = tgt_strings
    /\ success' = FALSE
    /\ pc' = "done"

\* if len(src_spans_ind) % 2 != 0
ReturnCorruptedSrc ==
    /\ pc = "start"
    /\ Len(src_spans_ind) % 2 # 0
    /\ ReturnUnchanged
    /\ UNCHANGED <<inputs, callvars, forcedvars, error, loopvars>>

\* a bug: the corrupted target is reported by an exception
RaiseCorruptedTgt ==
    /\ pc = "start"
    /\ Len(src_spans_ind) % 2 = 0
    /\ Len(tgt_spans_ind) % 2 # 0
    /\ pc' = "raised"
    /\ UNCHANGED <<inputs, callvars, forcedvars, error, loopvars, text, success>>

\* if len(tgt_spans_ind) % 2 != 0
ReturnCorruptedTgt ==
    /\ pc = "start"
    /\ Len(src_spans_ind) % 2 = 0
    /\ Len(tgt_spans_ind) % 2 # 0
    /\ ReturnUnchanged
    /\ UNCHANGED <<inputs, callvars, forcedvars, error, loopvars>>

\* if len(src_spans) != len(tgt_spans)
ReturnCountMismatch ==
    /\ pc = "start"
    /\ Len(src_spans_ind) % 2 = 0
    /\ Len(tgt_spans_ind) % 2 = 0
    /\ Len(src_spans) # Len(tgt_spans)
    /\ ReturnUnchanged
    /\ UNCHANGED <<inputs, callvars, forcedvars, error, loopvars>>

\* a bug: the scan of a span starts at its last token
FirstPosEnd(idx) == IF idx < Len(src_spans) THEN src_spans[idx + 1][2] ELSE 0

\* first value of i for the source span src_idx (i = beg), if there is one
FirstPos(idx) == IF idx < Len(src_spans) THEN src_spans[idx + 1][1] ELSE 0

\* a bug: the comparison of the span counts is missing
EnterLoopAnyCount ==
    /\ pc = "start"
    /\ Len(src_spans_ind) % 2 = 0
    /\ Len(tgt_spans_ind) % 2 = 0
    /\ pc' = "loop"
    /\ src_idx' = 0
    /\ i' = FirstPos(0)
    /\ tgt_span_success' = {}
    /\ UNCHANGED <<inputs, callvars, forcedvars, error, src2tgt_mapping, src2tgt_mapping_index,
                   max_tgt_att_idx, missed, text, success>>

\* tgt_span_success = set(); for src_idx, (beg, end) in enumerate(src_spans)
EnterLoop ==
    /\ pc = "start"
    /\ Len(src_spans_ind) % 2 = 0
    /\ Len(tgt_spans_ind) % 2 = 0
    /\ Len(src_spans) = Len(tgt_spans)
    /\ pc' = "loop"
    /\ src_idx' = 0
    /\ i' = FirstPos(0)
    /\ tgt_span_success' = {}
    /\ UNCHANGED <<inputs, callvars, forcedvars, error, src2tgt_mapping, src2tgt_mapping_index,
                   max_tgt_att_idx, missed, text, success>>

\* one iteration of `while i <= end`
ScanToken ==
    /\ pc = "loop"
    /\ src_idx < Len(src_spans)
    /\ i <= src_spans[src_idx + 1][2]
    /\ \E argmax \in AttentionRows :
         LET tgt_span_idx == FindTgtSpan(tgt_spans, tgt_span_success, argmax)
         IN /\ max_tgt_att_idx' = argmax
            /\ IF tgt_span_idx # -1
               THEN /\ src2tgt_mapping' =
                         (src_spans[src_idx + 1] :> tgt_spans[tgt_span_idx + 1])
                             @@ src2tgt_mapping
                    /\ src2tgt_mapping_index' =
                         (src_idx :> tgt_span_idx) @@ src2tgt_mapping_index
                    /\ tgt_span_success' =
                         tgt_span_success \cup {tgt_spans[tgt_span_idx + 1]}
                    /\ src_idx' = src_idx + 1
                    /\ i' = FirstPos(src_idx + 1)
                    /\ UNCHANGED missed
               ELSE /\ i' = i + 1
                    /\ missed' = missed \cup {i}
                    /\ UNCHANGED <<src_idx, tgt_span_success, src2tgt_mapping,
                                   src2tgt_mapping_index>>
    /\ UNCHANGED <<inputs, callvars, forcedvars, error, pc, text, success>>

\* a bug: the unresolved span is skipped and the loop goes on
SkipUnresolved ==
    /\ pc = "loop"
    /\ src_idx < Len(src_spans)
    /\ i > src_spans[src_idx + 1][2]
    /\ src_idx' = src_idx + 1
    /\ i' = FirstPos(src_idx + 1)
    /\ UNCHANGED <<inputs, callvars, forcedvars, error, pc, text, success, tgt_span_success,
                   src2tgt_mapping, src2tgt_mapping_index, max_tgt_att_idx,
                   missed>>

\* the while loop ended with tgt_span_idx None
ReturnUnresolved ==
    /\ pc = "loop"
    /\ src_idx < Len(src_spans)
    /\ i > src_spans[src_idx + 1][2]
    /\ ReturnUnchanged
    /\ UNCHANGED <<inputs, callvars, forcedvars, error, loopvars>>

\* the for loop ended: splice the source literals into the target string
Substitute ==
    /\ pc = "loop"
    /\ src_idx = Len(src_spans)
    /\ LET tgt2src_mapping_index == Invert(src2tgt_mapping_index)
       IN IF LookupFails(tgt_matches, src_matches, tgt2src_mapping_index)
          THEN /\ pc' = "raised"
               /\ error' = "KeyError"
               /\ UNCHANGED <<text, success>>
          ELSE /\ text' = ReplacedText(tgt_strings, tgt_matches, src_strings,
                                       src_matches, tgt2src_mapping_index)
               /\ success' = TRUE
               /\ pc' = "done"
               /\ UNCHANGED error
    /\ UNCHANGED <<inputs, callvars, forcedvars, loopvars>>

\* a second call: same source, the first call's output as the target
Rerun ==
    /\ pc = "done"
    /\ success
    /\ run = 1
    /\ run' = 2
    /\ first_text' = text
    /\ tgt_tokens' = Retokenize(text)
    /\ pc' = "start"
    /\ src_idx' = 0
    /\ i' = 0
    /\ tgt_span_success' = {}
    /\ src2tgt_mapping' = EmptyMap
    /\ src2tgt_mapping_index' = EmptyMap
    /\ max_tgt_att_idx' = -1
    /\ missed' = {}
    /\ text' = <<>>
    /\ success' = FALSE
    /\ UNCHANGED <<src_tokens, tgt_lang, callvars, forcedvars, error>>

Next ==
    \/ ReturnCorruptedSrc
    \/ ReturnCorruptedTgt
    \/ ReturnCountMismatch
    \/ EnterLoop
    \/ ScanToken
    \/ ReturnUnresolved
    \/ Substitute
    \/ Rerun

Spec == Init /\ [][Next]_vars

TypeOK ==
    /\ pc \in {"start", "loop", "done", "raised"}
    /\ success \in BOOLEAN
    /\ run \in {1, 2}

-----------------------------------------------------------------------------
(* force_replace_quoted_params: forced substitution.                       *)
(*                                                                         *)
(* The function reuses src2tgt_mapping: first span -> (s1, s2), the clamped *)
(* target token indices, then span -> (start, end), the target word range. *)
(* tokens holds, for every string the code appends to its list, where the  *)
(* string comes from: a word of the target or a match of the source.       *)

\* a sentence piece that continues the word of the piece before it
TokCont == <<"b">>

ForcedSrcVocab == {TokQuote, TokA}
ForcedTgtVocab == {TokQuote, TokCont}

\* a source whose literal has tokens between its first and its last
LongLiteralSrc == <<TokQuote>> \o [k \in 1..(MaxRun + 1) |-> TokA] \o <<TokQuote>>

ForcedSrcInputs ==
    {s \in SeqsUpTo(ForcedSrcVocab, MaxForcedSrcLen) : ShortRuns(s)}
        \cup {LongLiteralSrc}

\* a tokenizer's first piece starts a word; at most one word of two pieces
ForcedTgtInputs ==
    {t \in SeqsUpTo(ForcedTgtVocab, MaxForcedTgtLen) :
        /\ t # <<>> => t[1][1] = SPIECE_UNDERLINE
        /\ Cardinality({k \in 1..Len(t) : t[k] = TokCont}) <= 1}

Modes == {"strict", "forced"}
Pads == {0, 1}

Min(a, b) == IF a <= b THEN a ELSE b
Max(a, b) == IF a >= b THEN a ELSE b

\* a bug: two tokens are appended
TokenizeTwoQuotes == <<TokQuote, TokQuote>>

\* tokenizer.tokenize('"')
TokenizeQuote == <<TokQuote>>

\* a bug: the argmax is used as it is
ClampNone(s) == s

\* min(s, len(tgt_tokens) - 1)
Clamp(s) == Min(s, Len(tgt_tokens) - 1)

\* [1 if token[0] == SPIECE_UNDERLINE else 0 for token in tgt_tokens]
tgt_is_piece ==
    [k \in 1..Len(tgt_tokens) |->
        IF tgt_tokens[k][1] = SPIECE_UNDERLINE THEN 1 ELSE 0]

RECURSIVE CumSum(_, _)
CumSum(s, k) == IF k = 0 THEN 0 ELSE CumSum(s, k - 1) + s[k]

\* list(np.cumsum(tgt_is_piece) - 1)
tgt_piece2word_mapping ==
    [k \in 1..Len(tgt_tokens) |-> CumSum(tgt_is_piece, k) - 1]

\* Python's list[k]: defined for -len <= k < len, negative k from the end
PyIndexOK(s, k) == -Len(s) <= k /\ k < Len(s)
PyIndex(s, k) == IF k >= 0 THEN s[k + 1] ELSE s[Len(s) + k + 1]

\* str.split(' '): every space separates, '' gives ['']
RECURSIVE Split(_, _)
Split(str, cur) ==
    IF str = <<>> THEN <<cur>>
    ELSE IF Head(str) = Space THEN <<cur>> \o Split(Tail(str), <<>>)
    ELSE Split(Tail(str), Append(cur, Head(str)))

tgt_strings_words == Split(tgt_strings, <<>>)

\* the spans in the insertion order of the dict
SpanValues == [k \in 1..Len(src_spans) |-> src2tgt_mapping[src_spans[k]]]

\* the origins of tgt_strings_words[a:b], for 0 <= a
WordItems(a, b) ==
    LET hi == Min(b, Len(tgt_strings_words))
    IN [k \in 1..(IF hi > a THEN hi - a ELSE 0) |->
           [kind |-> "word", at |-> a + k - 1]]

\* the loop over src2tgt_mapping.items() and the tail after it
RECURSIVE ForceTokens(_, _, _)
ForceTokens(ranges, k, curr) ==
    IF k > Len(ranges)
    THEN IF curr < Len(tgt_strings_words)
         THEN WordItems(curr, Len(tgt_strings_words)) ELSE <<>>
    ELSE LET start == ranges[k][1]
             end == ranges[k][2]
         IN (IF start > curr THEN WordItems(curr, start) ELSE <<>>)
            \o <<[kind |-> "literal", at |-> k - 1]>>
            \o ForceTokens(ranges, k + 1, end)

\* a bug: the literal is spliced without its quotation symbols
RenderContent(item) ==
    IF item.kind = "word" THEN tgt_strings_words[item.at + 1]
    ELSE Group1(src_strings, src_matches[item.at + 1])

\* the string appended for an origin
Render(item) ==
    IF item.kind = "word" THEN tgt_strings_words[item.at + 1]
    ELSE Group0(src_strings, src_matches[item.at + 1])

\* ' '.join(tokens)
ForcedText(items) == Join([k \in 1..Len(items) |-> Render(items[k])], <<Space>>)

locals == <<src_idx, i, tgt_span_success, src2tgt_mapping_index,
            max_tgt_att_idx, missed, success>>

\* a bug: the column of every token of the span is read, as the strict
\* function does
ColumnsReadWholeSpan(beg, end) == beg..end

\* the columns of the matrix read for a span: [:, beg] and [:, end]
ColumnsRead(beg, end) == {beg, end}

\* lines 357-362: an odd number of quote tokens, a closing quote is appended
\* to the caller's list
ForceRepair ==
    /\ pc = "fstart"
    /\ Len(src_spans_ind) % 2 # 0
    /\ src_tokens' = src_tokens \o TokenizeQuote
    /\ pc' = "floop"
    /\ UNCHANGED <<tgt_tokens, tgt_lang, run, first_text, callvars, forcedvars,
                   error, locals, src2tgt_mapping, text>>

\* a bug: a target with an odd number of quote tokens is rejected, as the
\* strict function does
ForceRejectOddTarget ==
    /\ pc = "fstart"
    /\ Len(src_spans_ind) % 2 = 0
    /\ pc' = IF Len(tgt_spans_ind) % 2 # 0 THEN "raised" ELSE "floop"
    /\ UNCHANGED <<inputs, callvars, forcedvars, error, locals,
                   src2tgt_mapping, text>>

\* lines 357, 364-372: an even number of quote tokens
ForceEnterLoop ==
    /\ pc = "fstart"
    /\ Len(src_spans_ind) % 2 = 0
    /\ pc' = "floop"
    /\ UNCHANGED <<inputs, callvars, forcedvars, error, locals,
                   src2tgt_mapping, text>>

\* lines 374-382: one round of the loop over src_spans.  Indexing a column
\* the matrix does not have raises IndexError; argmax over no rows raises.
ForceMapSpan ==
    /\ pc = "floop"
    /\ src_idx < Len(src_spans)
    /\ LET beg == src_spans[src_idx + 1][1]
           end == src_spans[src_idx + 1][2]
       IN IF beg \notin AttentionCols
          THEN /\ pc' = "raised"
               /\ error' = "IndexError"
               /\ UNCHANGED <<src_idx, src2tgt_mapping, att_read>>
          ELSE IF AttentionRows = {}
          THEN /\ pc' = "raised"
               /\ error' = "RuntimeError"
               /\ att_read' = att_read \cup {beg}
               /\ UNCHANGED <<src_idx, src2tgt_mapping>>
          ELSE IF end \notin AttentionCols
          THEN /\ pc' = "raised"
               /\ error' = "IndexError"
               /\ att_read' = att_read \cup {beg}
               /\ UNCHANGED <<src_idx, src2tgt_mapping>>
          ELSE \E a1, a2 \in AttentionRows :
                 /\ beg = end => a1 = a2
                 /\ LET s1 == Clamp(a1)
                        s2 == Clamp(a2)
                    IN src2tgt_mapping' =
                         [sp \in DOMAIN src2tgt_mapping \cup {<<beg, end>>} |->
                            IF sp = <<beg, end>> THEN <<s1, s2>>
                            ELSE src2tgt_mapping[sp]]
                 /\ att_read' = att_read \cup ColumnsRead(beg, end)
                 /\ src_idx' = src_idx + 1
                 /\ UNCHANGED <<pc, error>>
    /\ UNCHANGED <<inputs, callvars, tokens, i, tgt_span_success,
                   src2tgt_mapping_index, max_tgt_att_idx, missed, success, text>>

\* a bug: after a failed lookup the detokenized target is returned, nothing
\* replaced
ForceWordMapSoft ==
    /\ pc = "floop"
    /\ src_idx = Len(src_spans)
    /\ IF \A sp \in DOMAIN src2tgt_mapping :
            /\ PyIndexOK(tgt_piece2word_mapping, src2tgt_mapping[sp][1])
            /\ PyIndexOK(tgt_piece2word_mapping, src2tgt_mapping[sp][2])
       THEN /\ src2tgt_mapping' =
                 [sp \in DOMAIN src2tgt_mapping |->
                    LET s1 == src2tgt_mapping[sp][1]
                        s2 == src2tgt_mapping[sp][2]
                    IN <<Max(0, PyIndex(tgt_piece2word_mapping, s1) - 1),
                         Min(PyIndex(tgt_piece2word_mapping, s2) + 1,
                             Len(tgt_tokens))>>]
            /\ pc' = "fsubst"
            /\ UNCHANGED text
       ELSE /\ pc' = "done"
            /\ text' = tgt_strings
            /\ UNCHANGED src2tgt_mapping
    /\ UNCHANGED <<inputs, callvars, forcedvars, locals, error>>

\* lines 389-396: token indices to word ranges; a failed lookup is re-raised
\* as ValueError
ForceWordMap ==
    /\ pc = "floop"
    /\ src_idx = Len(src_spans)
    /\ IF \A sp \in DOMAIN src2tgt_mapping :
            /\ PyIndexOK(tgt_piece2word_mapping, src2tgt_mapping[sp][1])
            /\ PyIndexOK(tgt_piece2word_mapping, src2tgt_mapping[sp][2])
       THEN /\ src2tgt_mapping' =
                 [sp \in DOMAIN src2tgt_mapping |->
                    LET s1 == src2tgt_mapping[sp][1]
                        s2 == src2tgt_mapping[sp][2]
                    IN <<Max(0, PyIndex(tgt_piece2word_mapping, s1) - 1),
                         Min(PyIndex(tgt_piece2word_mapping, s2) + 1,
                             Len(tgt_tokens))>>]
            /\ pc' = "fsubst"
            /\ UNCHANGED error
       ELSE /\ pc' = "raised"
            /\ error' = "ValueError"
            /\ UNCHANGED src2tgt_mapping
    /\ UNCHANGED <<inputs, callvars, forcedvars, locals, text>>

\* lines 399-414: the output is assembled and returned; the dict is a local
\* and is gone with the return
ForceSubstitute ==
    /\ pc = "fsubst"
    /\ IF Len(src_matches) < Len(src_spans)
       THEN /\ pc' = "raised"
            /\ error' = "IndexError"
            /\ UNCHANGED <<tokens, text>>
       ELSE /\ tokens' = ForceTokens(SpanValues, 1, 0)
            /\ text' = ForcedText(tokens')
            /\ pc' = "done"
            /\ UNCHANGED error
    /\ src2tgt_mapping' = EmptyMap
    /\ UNCHANGED <<inputs, callvars, att_read, locals>>

\* the caller calls again, with the same lists and the same matrix
NextCall ==
    /\ pc \in {"done", "raised"}
    /\ mode' \in Modes
    /\ pc' = IF mode' = "strict" THEN "start" ELSE "fstart"
    /\ src_idx' = 0
    /\ i' = 0
    /\ tgt_span_success' = {}
    /\ src2tgt_mapping' = EmptyMap
    /\ src2tgt_mapping_index' = EmptyMap
    /\ max_tgt_att_idx' = -1
    /\ missed' = {}
    /\ text' = <<>>
    /\ success' = FALSE
    /\ att_read' = {}
    /\ tokens' = <<>>
    /\ error' = "none"
    /\ UNCHANGED <<inputs, src_given, att_pad>>

InitCalls ==
    /\ src_tokens \in ForcedSrcInputs
    /\ tgt_lang = "en"
    /\ tgt_tokens \in ForcedTgtInputs
    /\ mode \in Modes
    /\ pc = IF mode = "strict" THEN "start" ELSE "fstart"
    /\ src_idx = 0
    /\ i = 0
    /\ tgt_span_success = {}
    /\ src2tgt_mapping = EmptyMap
    /\ src2tgt_mapping_index = EmptyMap
    /\ max_tgt_att_idx = -1
    /\ missed = {}
    /\ text = <<>>
    /\ success = FALSE
    /\ run = 1
    /\ first_text = <<>>
    /\ src_given = src_tokens
    /\ att_pad \in Pads
    /\ att_read = {}
    /\ tokens = <<>>
    /\ error = "none"

NextCalls ==
    \/ ReturnCorruptedSrc
    \/ ReturnCorruptedTgt
    \/ ReturnCountMismatch
    \/ EnterLoop
    \/ ScanToken
    \/ ReturnUnresolved
    \/ Substitute
    \/ ForceRepair
    \/ ForceEnterLoop
    \/ ForceMapSpan
    \/ ForceWordMap
    \/ ForceSubstitute
    \/ NextCall

SpecCalls == InitCalls /\ [][NextCalls]_vars

TypeOKCalls ==
    /\ pc \in {"start", "loop", "done", "raised", "fstart", "floop", "fsubst"}
    /\ mode \in Modes
    /\ Len(src_tokens) - Len(src_given) \in {0, 1}
    /\ error \in {"none", "KeyError", "IndexError", "RuntimeError", "ValueError"}

-----------------------------------------------------------------------------
(* Vocabulary of the properties *)

Returned == pc = "done"
Finished == pc \in {"done", "raised"}
EvenCounts == Len(src_spans_ind) % 2 = 0 /\ Len(tgt_spans_ind) % 2 = 0
SameCounts == EvenCounts /\ Len(src_spans) = Len(tgt_spans)

\* the quoted substrings of a string, left to right
Quoted(str, syms) ==
    LET ms == FindIter(str, syms, 1)
    IN [k \in 1..Len(ms) |-> Group0(str, ms[k])]

\* the string without its quoted substrings
RECURSIVE OutsideFrom(_, _, _, _)
OutsideFrom(str, ms, pos, curr) ==
    IF pos > Len(ms) THEN Slice(str, curr, Len(str))
    ELSE Slice(str, curr, ms[pos][1]) \o OutsideFrom(str, ms, pos + 1, ms[pos][2])

Outside(str, syms) == OutsideFrom(str, FindIter(str, syms, 1), 1, 0)

\* number of quotation symbols in a string
CountSyms(str, syms) == Cardinality({p \in 1..Len(str) : str[p] \in syms})

\* every token position of source span k was read, and none had its argmax
\* inside a target span not yet claimed
NoHit(k) == \A p \in src_spans[k + 1][1]..src_spans[k + 1][2] : p \in missed

\* the attention aligns source span k with target span k, for every k: the
\* first token of each source span has its argmax inside target span k
AlignedInOrder ==
    /\ SameCounts
    /\ missed = {}
    /\ \A k \in 0..(Len(src_spans) - 1) :
         /\ k \in DOMAIN src2tgt_mapping_index
         /\ src2tgt_mapping_index[k] = k

\* the target holds the literals of the source, in the same order
SameLiterals ==
    Quoted(tgt_strings, tgt_quotation_symbols(tgt_lang))
        = Quoted(src_strings, src_quotation_symbols)

-----------------------------------------------------------------------------
(* C1 *)

\* C1: whenever the call returns success = False, whichever failure path it
\* took, the returned string is the detokenized target, nothing substituted.
C1_UnchangedOnFailure == (Returned /\ ~success) => text = tgt_strings

\* a failed call on a target that holds a quoted literal differing from the source string
C1_Witness ==
    /\ Returned /\ ~success
    /\ tgt_matches # <<>>
    /\ src_strings # tgt_strings

-----------------------------------------------------------------------------
(* C2 *)

\* C2: on success the quoted substrings of the output are, position by
\* position, the whole quoted substrings of the source spans mapped to the
\* target spans at these positions; there are as many as in the target.
C2_SourceLiteralsInPlace ==
    (Returned /\ success) =>
        LET out == Quoted(text, tgt_quotation_symbols(tgt_lang))
            src == Quoted(src_strings, src_quotation_symbols)
            tgt2src == Invert(src2tgt_mapping_index)
        IN /\ Len(out) = Len(tgt_matches)
           /\ \A k \in 1..Len(out) :
                /\ (k - 1) \in DOMAIN tgt2src
                /\ out[k] = src[tgt2src[k - 1] + 1]

\* two source spans with different literals, mapped crosswise
C2_Witness ==
    /\ Returned /\ success
    /\ Len(src_matches) = 2
    /\ Group0(src_strings, src_matches[1]) # Group0(src_strings, src_matches[2])
    /\ src2tgt_mapping_index = (0 :> 1) @@ (1 :> 0)

-----------------------------------------------------------------------------
(* C3 *)

\* C3: no two source spans are mapped to the same target span, and the
\* claimed target spans are exactly the spans mapped so far.
C3_OneClaimPerTargetSpan ==
    /\ \A a, b \in DOMAIN src2tgt_mapping_index :
         src2tgt_mapping_index[a] = src2tgt_mapping_index[b] => a = b
    /\ \A a, b \in DOMAIN src2tgt_mapping :
         src2tgt_mapping[a] = src2tgt_mapping[b] => a = b
    /\ pc = "loop" =>
         tgt_span_success =
             {tgt_spans[src2tgt_mapping_index[k] + 1] : k \in DOMAIN src2tgt_mapping_index}

\* the first token of the second source span pointed into the target span the
\* first source span had claimed, and was refused there
C3_Witness ==
    /\ pc = "loop"
    /\ src_idx = 1
    /\ Len(src_spans) = 2
    /\ src_spans[1] \in DOMAIN src2tgt_mapping
    /\ i = src_spans[2][1] + 1
    /\ src_spans[2][1] \in missed
    /\ src2tgt_mapping[src_spans[1]][1] <= max_tgt_att_idx
    /\ max_tgt_att_idx <= src2tgt_mapping[src_spans[1]][2]

-----------------------------------------------------------------------------
(* C4 *)

\* C4: with even marker counts and different span counts the call returns
\* (detokenized target, False): it does not raise and reads no attention.
C4_CountMismatchSoftFailure ==
    (pc # "start" /\ EvenCounts /\ Len(src_spans) # Len(tgt_spans)) =>
        /\ Returned /\ ~success /\ text = tgt_strings
        /\ max_tgt_att_idx = -1
        /\ missed = {}
        /\ src2tgt_mapping_index = EmptyMap

\* one source span, two target spans
C4_Witness ==
    /\ Returned
    /\ EvenCounts
    /\ Len(src_spans) = 1
    /\ Len(tgt_spans) = 2

-----------------------------------------------------------------------------
(* C5 *)

\* C5: an odd number of quote-marker tokens in the source or in the target
\* is a soft failure: (detokenized target, False), never an exception.
C5_OddCountSoftFailure ==
    (pc # "start" /\ ~EvenCounts) =>
        Returned /\ ~success /\ text = tgt_strings

\* a target with an odd marker count under a well-formed source with a literal
C5_Witness ==
    /\ Returned
    /\ Len(src_spans_ind) = 2
    /\ Len(tgt_spans_ind) % 2 = 1

-----------------------------------------------------------------------------
(* C6 *)

\* C6: if some source span has no token position whose argmax lies in a
\* target span not yet claimed, the call returns (detokenized target, False),
\* also when earlier source spans were matched.
C6_FailsAsAUnit ==
    (Finished /\ SameCounts /\ \E k \in 0..(Len(src_spans) - 1) : NoHit(k)) =>
        Returned /\ ~success /\ text = tgt_strings

\* the first source span was matched, the second one was scanned without a hit
C6_Witness ==
    /\ Returned /\ ~success
    /\ SameCounts
    /\ DOMAIN src2tgt_mapping_index = {0}
    /\ Len(src_spans) = 2
    /\ src_spans[2][1] <= src_spans[2][2]
    /\ NoHit(1)

-----------------------------------------------------------------------------
(* C7 *)

\* C7: if the target holds the same quoted literals as the source and the
\* attention aligns the spans in order, the call returns success = True and
\* a string equal to the detokenized target, character for character.
C7_RoundTrip ==
    (Finished /\ run = 1 /\ SameLiterals /\ AlignedInOrder) =>
        Returned /\ success /\ text = tgt_strings

-----------------------------------------------------------------------------
(* C8 *)

\* C8: on success the output without its quoted substrings equals the
\* detokenized target without its quoted substrings.
C8_OutsideTextPreserved ==
    (Returned /\ success) =>
        Outside(text, tgt_quotation_symbols(tgt_lang))
            = Outside(tgt_strings, tgt_quotation_symbols(tgt_lang))

-----------------------------------------------------------------------------
(* C9 *)

-----------------------------------------------------------------------------
(* C10 *)

\* C10: the second call, on the first call's successful output and with the
\* attention aligning the spans in order, returns success = True and the
\* first call's output.
C10_Idempotent ==
    (Finished /\ run = 2 /\ AlignedInOrder) =>
        Returned /\ success /\ text = first_text

-----------------------------------------------------------------------------
(* Vocabulary of the properties of forced substitution and of call         *)
(* sequences                                                               *)

ForcedCall == mode = "forced"
StrictCall == mode = "strict"

\* the source list holds what the caller passed and the appended closing quote
Repaired == src_tokens = src_given \o TokenizeQuote

\* start <= end and 0 <= start, end < len(sequence)
SpanInBounds(sp, toks) == sp[1] <= sp[2] /\ 0 <= sp[1] /\ sp[2] < Len(toks)

-----------------------------------------------------------------------------
(* C11 *)

\* C11: once a call has extracted its spans (lines 266-268 of a strict call,
\* line 372 of a forced call, after the repair if there was one), every span
\* of the source, and in a strict call of the target, has start <= end,
\* 0 <= start and end < len(sequence).
C11_SpanInvariant ==
    /\ pc \in {"loop", "floop"} =>
         \A k \in 1..Len(src_spans) : SpanInBounds(src_spans[k], src_tokens)
    /\ pc = "loop" =>
         \A k \in 1..Len(tgt_spans) : SpanInBounds(tgt_spans[k], tgt_tokens)

-----------------------------------------------------------------------------
(* C12 *)

\* the caller passed a source with an odd number of quote tokens
OddGiven == Len(SpansInd(src_given, src_quotation_symbols)) % 2 # 0

\* C12: in a forced call on a source with an odd number of quote tokens and a
\* non-empty target, past the repair the source is what the caller passed
\* with one closing quote token appended, its number of quote tokens is even,
\* and the call does not raise, wherever the unmatched quote token is.
C12_AutoRepairCompletes ==
    (ForcedCall /\ OddGiven /\ tgt_tokens # <<>> /\ pc # "fstart") =>
        /\ Repaired
        /\ Len(src_spans_ind) % 2 = 0
        /\ pc # "raised"

-----------------------------------------------------------------------------
(* C13 *)

\* C13: a forced call on a source with an even number of quote tokens and a
\* non-empty target never raises, whatever the attention and whatever the
\* number of quote tokens of the target; when it ends it has returned a
\* string, assembled from the words of the target and the source literals.
C13_ForcedNeverFails ==
    (ForcedCall /\ ~OddGiven /\ tgt_tokens # <<>>) =>
        /\ pc # "raised"
        /\ error = "none"
        /\ Finished => (Returned /\ text = ForcedText(tokens))

\* a forced call returned on a target whose number of quote tokens is odd and
\* differs from the source's
C13_Witness ==
    /\ ForcedCall /\ ~OddGiven /\ Returned
    /\ Len(src_spans) = 1
    /\ Len(tgt_spans_ind) = 3
    /\ text # tgt_strings

-----------------------------------------------------------------------------
(* C14 *)

\* C14: over any sequence of strict and forced calls on the same lists, no
\* step changes the target tokens or the shape of the attention matrix, and a
\* step changes the source tokens only as the repair of a forced call does:
\* on a source as the caller first passed it, with an odd number of quote
\* tokens, by appending the one closing quote token.  A call on the repaired
\* source appends nothing.
C14_CallersListsUnchanged ==
    [][/\ tgt_tokens' = tgt_tokens
       /\ att_pad' = att_pad
       /\ src_tokens' # src_tokens =>
            /\ ForcedCall /\ pc = "fstart"
            /\ src_tokens = src_given
            /\ Len(src_spans_ind) % 2 # 0
            /\ src_tokens' = Append(src_tokens, TokQuote)]_vars

\* a strict call returned on a source that an earlier forced call repaired
C14_Witness ==
    /\ StrictCall /\ Returned
    /\ src_tokens = Append(src_given, TokQuote)

-----------------------------------------------------------------------------
(* C15 *)

\* the target word positions of the output, in the order they were appended
WordsEmitted ==
    LET ws == SelectSeq(tokens, LAMBDA item : item.kind = "word")
    IN [k \in 1..Len(ws) |-> ws[k].at]

\* C15: the target words of the output of a forced call are in their original
\* order and no word position is emitted twice, whatever the word ranges.
C15_WordsOnceInOrder ==
    (ForcedCall /\ Returned) =>
        \A k \in 1..(Len(WordsEmitted) - 1) : WordsEmitted[k] < WordsEmitted[k + 1]

-----------------------------------------------------------------------------
(* C16 *)

\* the word a target token belongs to, and the number of words of the target
WordOf(s) == tgt_piece2word_mapping[s + 1]
word_count == CumSum(tgt_is_piece, Len(tgt_tokens))

\* C16: the step from token indices to word ranges gives every source span
\* start = max(0, word(s1) - 1) and end = min(word(s2) + 1, word_count), with
\* 0 <= start and end <= word_count, and the words start..end-1 are the words
\* word(s1)..word(s2) and the word before and the word after them, where the
\* target has such words.
C16_WordRangeWidened ==
    [][(pc = "floop" /\ pc' = "fsubst") =>
         \A sp \in DOMAIN src2tgt_mapping :
            LET w1 == WordOf(src2tgt_mapping[sp][1])
                w2 == WordOf(src2tgt_mapping[sp][2])
                start == src2tgt_mapping'[sp][1]
                end == src2tgt_mapping'[sp][2]
            IN /\ start = Max(0, w1 - 1)
               /\ end = Min(w2 + 1, word_count)
               /\ 0 <= start /\ end <= word_count
               /\ \A w \in (w1 - 1)..(w2 + 1) :
                     (0 <= w /\ w < word_count) => (start <= w /\ w < end)]_vars

-----------------------------------------------------------------------------
(* C17 *)

\* the pairs (s1, s2) the loop over the source spans has stored so far
ClampedPairs == {src2tgt_mapping[sp] : sp \in DOMAIN src2tgt_mapping}

ValidTokenIndex(s) == 0 <= s /\ s <= Len(tgt_tokens) - 1

\* C17, as stated: after clamping, s1 and s2 of every source span are valid
\* indices of the target token sequence, for every target and every matrix.
C17_ClampedValidAnyTarget ==
    (ForcedCall /\ pc = "floop") =>
        \A pair \in ClampedPairs :
            ValidTokenIndex(pair[1]) /\ ValidTokenIndex(pair[2])

\* C17, amended: for a non-empty target, after clamping, s1 and s2 of every
\* source span are valid indices of the target token sequence, for every
\* matrix, also one with more rows than the target has tokens.
C17_ClampedValid ==
    (ForcedCall /\ pc = "floop" /\ tgt_tokens # <<>>) =>
        \A pair \in ClampedPairs :
            ValidTokenIndex(pair[1]) /\ ValidTokenIndex(pair[2])

\* a matrix with one row more than the target has tokens, and a span whose
\* boundaries were mapped to the last and to the first target token
C17_Witness ==
    /\ ForcedCall /\ pc = "floop"
    /\ att_pad = 1
    /\ Len(tgt_tokens) >= 2
    /\ <<Len(tgt_tokens) - 1, 0>> \in ClampedPairs

-----------------------------------------------------------------------------
(* C18 *)

\* the loop over the source spans is over and an index it stored is not an
\* index of the piece-to-word list
LookupOutOfRange ==
    /\ ForcedCall /\ pc = "floop"
    /\ src_idx = Len(src_spans)
    /\ \E pair \in ClampedPairs :
          ~ValidTokenIndex(pair[1]) \/ ~ValidTokenIndex(pair[2])

\* C18: when the token-index to word-index lookup of a source span is out of
\* range, the next step of the call raises ValueError, the corrupted-alignment
\* error, and no string is returned; and a call that raised it has assembled
\* no output.
C18_LookupFailureIsFatal ==
    [][/\ LookupOutOfRange =>
            (pc' = "raised" /\ error' = "ValueError" /\ text' = <<>>)
       /\ (ForcedCall /\ error = "ValueError") =>
            (pc = "raised" /\ text = <<>> /\ tokens = <<>>)]_vars

\* a forced call raised the corrupted-alignment error
C18_Witness ==
    /\ ForcedCall /\ pc = "raised" /\ error = "ValueError"
    /\ \E pair \in ClampedPairs : ~ValidTokenIndex(pair[1])

-----------------------------------------------------------------------------
(* C19 *)

\* the literals spliced into the output, in the order they were appended
LiteralsEmitted ==
    LET ls == SelectSeq(tokens, LAMBDA item : item.kind = "literal")
    IN [k \in 1..Len(ls) |-> Render(ls[k])]

\* C19: the literals spliced into the output of a forced call are the quoted
\* substrings of the detokenized source, quotation symbols included, each
\* once, in the order of the source, one for every source span.
C19_SourceLiteralsInOrder ==
    (ForcedCall /\ Returned) =>
        /\ LiteralsEmitted = Quoted(src_strings, src_quotation_symbols)
        /\ Len(LiteralsEmitted) = Len(src_spans)

\* a forced call returned on a source of two different literals, with target
\* words kept before, between and after them
C19_Witness ==
    /\ ForcedCall /\ Returned
    /\ Len(LiteralsEmitted) = 2
    /\ LiteralsEmitted[1] # LiteralsEmitted[2]
    /\ Len(tokens) >= 5
    /\ tokens[1].kind = "word"
    /\ tokens[Len(tokens)].kind = "word"
    /\ \E k \in 2..(Len(tokens) - 2) :
          /\ tokens[k].kind = "literal"
          /\ tokens[k + 1].kind = "word"

-----------------------------------------------------------------------------
(* C20 *)

\* the first and the last token position of every source span
BoundaryColumns ==
    UNION {{src_spans[k][1], src_spans[k][2]} : k \in 1..Len(src_spans)}

\* C20: a forced call reads the attention matrix at the first and the last
\* token position of each source span and nowhere else, so the weights at
\* the other positions, inside and outside the spans, have no part in the
\* output: it is assembled from the token lists and the argmax at those
\* positions.
C20_OnlyBoundaryColumnsRead ==
    ForcedCall =>
        /\ pc # "fstart" => att_read \subseteq BoundaryColumns
        /\ Returned => (att_read = BoundaryColumns /\ text = ForcedText(tokens))

\* a forced call returned on a source with a span of three or more tokens:
\* the columns of the tokens between its first and last were not read
C20_Witness ==
    /\ ForcedCall /\ Returned
    /\ \E k \in 1..Len(src_spans) :
          \E c \in (src_spans[k][1] + 1)..(src_spans[k][2] - 1) : c \notin att_read
    /\ \E c \in AttentionCols : c \notin BoundaryColumns

-----------------------------------------------------------------------------
(* C21 *)

InSpan(idx, sp) == sp[1] <= idx /\ idx <= sp[2]

\* the target spans that hold idx and are not yet claimed
UnclaimedHolding(idx) ==
    {k \in 1..Len(tgt_spans) :
        InSpan(idx, tgt_spans[k]) /\ tgt_spans[k] \notin tgt_span_success}

\* one iteration of the while loop is taken: column i is read
ReadsColumn == pc = "loop" /\ pc' = "loop" /\ <<src_idx, i>>' # <<src_idx, i>>

\* C21: the source spans are taken left to right, and within a span the
\* positions from beg on.  The position read is preceded in its span only by
\* positions that were read without a match.  If its argmax lies in a target
\* span not yet claimed, that span is mapped to the source span and claimed,
\* and the scan goes to the next source span, leaving the later positions
\* unread; otherwise (the argmax is in no target span or in a claimed one)
\* the position is skipped and the next position is the one read next.
C21_FirstMatchingPosition ==
    [][ReadsColumn =>
         LET beg == src_spans[src_idx + 1][1]
             end == src_spans[src_idx + 1][2]
             argmax == max_tgt_att_idx'
         IN /\ DOMAIN src2tgt_mapping_index = 0..(src_idx - 1)
            /\ beg <= i /\ i <= end
            /\ \A p \in beg..end : p \in missed <=> p < i
            /\ IF UnclaimedHolding(argmax) # {}
               THEN \E k \in UnclaimedHolding(argmax) :
                      /\ src2tgt_mapping_index' =
                            (src_idx :> k - 1) @@ src2tgt_mapping_index
                      /\ src2tgt_mapping' =
                            (<<beg, end>> :> tgt_spans[k]) @@ src2tgt_mapping
                      /\ tgt_span_success' = tgt_span_success \cup {tgt_spans[k]}
                      /\ src_idx' = src_idx + 1
                      /\ src_idx + 1 < Len(src_spans) =>
                            i' = src_spans[src_idx + 2][1]
                      /\ missed' = missed
               ELSE /\ i' = i + 1
                    /\ missed' = missed \cup {i}
                    /\ UNCHANGED <<src_idx, src2tgt_mapping,
                                   src2tgt_mapping_index, tgt_span_success>>]_vars

\* a successful call of two spans: the first position of the first source
\* span was skipped, its second position mapped the span to the second target
\* span, and the second source span was mapped to the first target span
C21_Witness ==
    /\ Returned /\ success /\ run = 1
    /\ Len(src_spans) = 2
    /\ src_spans[1][1] < src_spans[1][2]
    /\ missed = {src_spans[1][1]}
    /\ src2tgt_mapping_index = (0 :> 1) @@ (1 :> 0)

-----------------------------------------------------------------------------
(* C22 *)

\* the quotation symbols of the reference definition: the double quote, and
\* for the target of locale 'ru' the two guillemets
RefSymbols(side, lang) ==
    IF side = "tgt" /\ lang = "ru" THEN {"\"", "<", ">"} ELSE {"\""}

\* the 0-based indices of the tokens that hold a quotation symbol
RefMarkers(toks, syms) ==
    {q \in 0..(Len(toks) - 1) :
        \E c \in 1..Len(toks[q + 1]) : toks[q + 1][c] \in syms}

\* ind lists the set qs in increasing order
ListsInOrder(ind, qs) ==
    /\ {ind[k] : k \in 1..Len(ind)} = qs
    /\ \A k \in 1..(Len(ind) - 1) : ind[k] < ind[k + 1]

\* spans pairs the indices of ind: (q_i + 1, q_{i+1} - 1) for i = 0, 2, 4, ...,
\* half as many spans as indices, each span after the one before it
PairsOf(spans, ind) ==
    /\ 2 * Len(spans) = Len(ind)
    /\ \A k \in 1..Len(spans) :
          spans[k] = <<ind[2 * k - 1] + 1, ind[2 * k] - 1>>
    /\ \A k \in 1..(Len(spans) - 1) :
          /\ spans[k][1] < spans[k + 1][1]
          /\ spans[k][2] < spans[k + 1][1]

\* C22: the quote-marker indices of the source and of the target are the
\* indices of the tokens that hold a quotation symbol, in increasing order:
\* the double quote for the source, for the target the double quote and, for
\* locale 'ru' only, the guillemets.  When both counts are even, the spans are
\* the pairs (q_i + 1, q_{i+1} - 1), half as many as the markers, in
\* increasing order and pairwise disjoint.
C22_SpanExtraction ==
    pc # "start" =>
        /\ ListsInOrder(src_spans_ind,
                        RefMarkers(src_tokens, RefSymbols("src", tgt_lang)))
        /\ ListsInOrder(tgt_spans_ind,
                        RefMarkers(tgt_tokens, RefSymbols("tgt", tgt_lang)))
        /\ \A lang \in Langs :
              ListsInOrder(SpansInd(tgt_tokens, tgt_quotation_symbols(lang)),
                           RefMarkers(tgt_tokens, RefSymbols("tgt", lang)))
        /\ EvenCounts =>
              /\ PairsOf(src_spans, src_spans_ind)
              /\ PairsOf(tgt_spans, tgt_spans_ind)

\* a 'ru' call past the extraction, with two source spans and a target span
\* that opens with a guillemet and closes with a double quote, and a word
\* token that is no marker
C22_Witness ==
    /\ pc # "start"
    /\ tgt_lang = "ru"
    /\ EvenCounts
    /\ Len(src_spans) = 2 /\ Len(tgt_spans) = 1
    /\ TokLGuil \in {tgt_tokens[k] : k \in 1..Len(tgt_tokens)}
    /\ TokQuote \in {tgt_tokens[k] : k \in 1..Len(tgt_tokens)}
    /\ TokA \in {src_tokens[k] : k \in 1..Len(src_tokens)}
    /\ Len(tgt_spans_ind) >
          Len(SpansInd(tgt_tokens, tgt_quotation_symbols("en")))

-----------------------------------------------------------------------------
(* C23 *)

\* every source span has been matched: the loop over src_spans is over
SubstitutionPhase == pc = "loop" /\ src_idx = Len(src_spans)

\* map is a bijection between 0..n-1 and 0..n-1
IndexBijection(map, n) ==
    /\ DOMAIN map = 0..(n - 1)
    /\ {map[k] : k \in DOMAIN map} = 0..(n - 1)
    /\ \A k, r \in DOMAIN map : map[k] = map[r] => k = r

\* C23: when a strict call reaches the substitution, src2tgt_mapping_index is
\* a bijection between 0..n-1 and 0..n-1, n the number of spans, its inverse
\* has an entry for the position of every quoted match of the target, the
\* entry is the position of a quoted match of the source, and the call does
\* not raise.
C23_LookupNeverMisses ==
    /\ SubstitutionPhase =>
          /\ IndexBijection(src2tgt_mapping_index, Len(src_spans))
          /\ \A pos \in 0..(Len(tgt_matches) - 1) :
                /\ pos \in DOMAIN Invert(src2tgt_mapping_index)
                /\ Invert(src2tgt_mapping_index)[pos] < Len(src_matches)
    /\ StrictCall => pc # "raised"

====
